---- MODULE Spec2Model ----
(***************************************************************************)
(* Model of the user authentication service                               *)
(* (0x03-user_authentication_service: user.py, db.py, auth.py).           *)
(*                                                                         *)
(* The users table is a sequence of rows; a row's id is its position      *)
(* (autoincrement primary key, rows are never deleted).  Python's None is *)
(* the value None, the empty string is EmptyStr, and a uuid4 string is a  *)
(* positive integer drawn from a counter (uuid4 values do not repeat).    *)
(* A bcrypt digest is the pair <<salt, password>>: checkpw re-hashes the  *)
(* candidate with the salt embedded in the stored digest and compares.    *)
(* gensalt() values, like uuid4 values, do not repeat: a counter.         *)
(***************************************************************************)
EXTENDS Integers, Sequences, FiniteSets, TLC

\* ---- bounds of the model ----
MaxUuid == 2
MaxSalt == 3
NumCallers == 2
MaxRows == 2

\* ---- values ----
None == 0
EmptyStr == -1
RegisterEmails == {"a@x.com", "b@x.com"}
Emails == RegisterEmails \cup {"missing@x.com"}
Passwords == {"pw1", "pw2"}
UserAttrs == {"id", "email", "hashed_password", "session_id", "reset_token"}

VARIABLES
    users,          \* rows of the 'users' table, in insertion order
    next_uuid,      \* the next value _generate_uuid() returns
    next_salt,      \* the next value bcrypt.gensalt() returns
    last,           \* the last Auth call: its name, arguments and outcome
    before,         \* history: the rows as they were when the last call began
    password_set,   \* history: per user id, the plaintext last stored for it
    reset_used,     \* history: tokens with which update_password succeeded
    calls           \* per concurrent caller, its call in progress (empty when calls run one at a time)

vars == <<users, next_uuid, next_salt, last, before, password_set, reset_used, calls>>

\* ---- user.py ----
User(id, email, hashed_password) ==
    [id |-> id, email |-> email, hashed_password |-> hashed_password,
     session_id |-> None, reset_token |-> None]

\* ---- bcrypt, as auth.py uses it ----
hashpw(password, salt) == <<salt, password>>

checkpw(password, hashed_password) ==
    hashpw(password, hashed_password[1]) = hashed_password

_hash_password(password, salt) == hashpw(password, salt)

\* ---- db.py ----
\* Query.one(): the single row, NoResultFound for none, MultipleResultsFound
\* (an InvalidRequestError) for several.  filter_by(col=None) is "col IS NULL".
find_user_by(us, key, value) ==
    LET rows == {i \in 1..Len(us) : us[i][key] = value}
    IN  IF key \notin UserAttrs
          THEN [exc |-> "InvalidRequestError", id |-> None]
        ELSE IF rows = {}
          THEN [exc |-> "NoResultFound", id |-> None]
        ELSE IF Cardinality(rows) > 1
          THEN [exc |-> "InvalidRequestError", id |-> None]
        ELSE [exc |-> "none", id |-> CHOOSE i \in rows : TRUE]

\* Mutant: the email column is unique, a second row with the email is refused.
add_user_unique(us, email, hashed_password) ==
    IF \E i \in 1..Len(us) : us[i].email = email
      THEN us
      ELSE Append(us, User(Len(us) + 1, email, hashed_password))

add_user(us, email, hashed_password) ==
    Append(us, User(Len(us) + 1, email, hashed_password))

\* Mutant: the loop stops after the first keyword.
set_attrs_first_only(us, i, kwargs) ==
    IF kwargs = <<>>
      THEN [exc |-> "none", users |-> us]
    ELSE IF Head(kwargs)[1] \notin UserAttrs
      THEN [exc |-> "ValueError", users |-> us]
    ELSE [exc |-> "none",
          users |-> [us EXCEPT ![i][Head(kwargs)[1]] = Head(kwargs)[2]]]

\* setattr for each keyword in turn; an unknown keyword raises ValueError
\* after the earlier keywords were already set on the session's object.
RECURSIVE set_attrs(_, _, _)
set_attrs(us, i, kwargs) ==
    IF kwargs = <<>>
      THEN [exc |-> "none", users |-> us]
    ELSE IF Head(kwargs)[1] \notin UserAttrs
      THEN [exc |-> "ValueError", users |-> us]
    ELSE set_attrs([us EXCEPT ![i][Head(kwargs)[1]] = Head(kwargs)[2]],
                   i, Tail(kwargs))

\* Mutant: an unknown id is passed over in silence.
update_user_ignore_missing(us, user_id, kwargs) ==
    LET r == find_user_by(us, "id", user_id)
    IN  IF r.exc # "none"
          THEN [exc |-> "none", users |-> us]
          ELSE set_attrs(us, r.id, kwargs)

update_user(us, user_id, kwargs) ==
    LET r == find_user_by(us, "id", user_id)
    IN  IF r.exc # "none"
          THEN [exc |-> r.exc, users |-> us]
          ELSE set_attrs(us, r.id, kwargs)

\* ---- the record of a call ----
Call(op, email, password, token, user_id) ==
    [op |-> op, email |-> email, password |-> password, token |-> token,
     user_id |-> user_id, exc |-> "none", ret_user |-> None,
     ret_str |-> None, ret_bool |-> FALSE, lookups |-> 0]

Init ==
    /\ users = <<>>
    /\ next_uuid = 1
    /\ next_salt = 1
    /\ last = Call("init", "", "", None, None)
    /\ before = <<>>
    /\ password_set = <<>>
    /\ reset_used = {}
    /\ calls = <<>>

\* ---- auth.py ----
\* The keyword arguments each method hands to DB.update_user.
\* Mutant: the session id is returned but not stored.
create_session_kwargs_unsaved(session_id) == <<>>

create_session_kwargs(session_id) == <<(<<"session_id", session_id>>)>>

\* Mutant: the session id is not cleared.
destroy_session_kwargs_noop == <<>>

destroy_session_kwargs == <<(<<"session_id", None>>)>>

\* Mutant: the reset token is written to the session column.
get_reset_password_token_kwargs_session(reset_token) ==
    <<(<<"session_id", reset_token>>)>>

\* Mutant: the token is returned but not stored.
get_reset_password_token_kwargs_unsaved(reset_token) == <<>>

get_reset_password_token_kwargs(reset_token) == <<(<<"reset_token", reset_token>>)>>

\* Mutant: the reset token survives the update.
update_password_kwargs_keep_token(hashed_password) ==
    <<(<<"hashed_password", hashed_password>>)>>

\* Mutant: the token is consumed but the new hash is not stored.
update_password_kwargs_keep_hash(hashed_password) ==
    <<(<<"reset_token", None>>)>>

update_password_kwargs(hashed_password) ==
    << <<"hashed_password", hashed_password>>, <<"reset_token", None>> >>

\* What get_user_from_session_id returns on the rows us.
user_from_session_id(us, session_id) ==
    IF session_id = None
      THEN [exc |-> "none", ret_user |-> None, lookups |-> 0]
      ELSE LET r == find_user_by(us, "session_id", session_id)
           IN  IF r.exc = "none"
                 THEN [exc |-> "none", ret_user |-> us[r.id].id, lookups |-> 1]
               ELSE IF r.exc = "NoResultFound"
                 THEN [exc |-> "none", ret_user |-> None, lookups |-> 1]
               ELSE [exc |-> r.exc, ret_user |-> None, lookups |-> 1]

\* Mutant: the row is added without looking the email up first.
register_user_unchecked(email, password) ==
    /\ before' = users
    /\ UNCHANGED calls
    /\ next_salt <= MaxSalt
    /\ users' = add_user(users, email, _hash_password(password, next_salt))
    /\ next_salt' = next_salt + 1
    /\ password_set' = Append(password_set, password)
    /\ last' = [Call("register_user", email, password, None, None)
                   EXCEPT !.ret_user = Len(users) + 1]
    /\ UNCHANGED <<next_uuid, reset_used>>

register_user(email, password) ==
    /\ before' = users
    /\ UNCHANGED calls
    /\ LET r == find_user_by(users, "email", email)
           c == [Call("register_user", email, password, None, None)
                    EXCEPT !.lookups = 1]
       IN  IF r.exc = "none"
             THEN /\ last' = [c EXCEPT !.exc = "ValueError"]
                  /\ UNCHANGED <<users, next_uuid, next_salt, password_set, reset_used>>
           ELSE IF r.exc = "NoResultFound"
             THEN /\ next_salt <= MaxSalt
                  /\ users' = add_user(users, email, _hash_password(password, next_salt))
                  /\ next_salt' = next_salt + 1
                  /\ password_set' = Append(password_set, password)
                  /\ last' = [c EXCEPT !.ret_user = Len(users) + 1]
                  /\ UNCHANGED <<next_uuid, reset_used>>
           ELSE /\ last' = [c EXCEPT !.exc = r.exc]
                /\ UNCHANGED <<users, next_uuid, next_salt, password_set, reset_used>>

\* Mutant: NoResultFound is not caught.
valid_login_uncaught(email, password) ==
    /\ before' = users
    /\ UNCHANGED calls
    /\ LET r == find_user_by(users, "email", email)
           c == [Call("valid_login", email, password, None, None)
                    EXCEPT !.lookups = 1]
       IN  last' = IF r.exc = "none"
                     THEN [c EXCEPT !.ret_bool =
                              checkpw(password, users[r.id].hashed_password)]
                     ELSE [c EXCEPT !.exc = r.exc]
    /\ UNCHANGED <<users, next_uuid, next_salt, password_set, reset_used>>

valid_login(email, password) ==
    /\ before' = users
    /\ UNCHANGED calls
    /\ LET r == find_user_by(users, "email", email)
           c == [Call("valid_login", email, password, None, None)
                    EXCEPT !.lookups = 1]
       IN  /\ last' = IF r.exc = "none"
                        THEN [c EXCEPT !.ret_bool =
                                 checkpw(password, users[r.id].hashed_password)]
                      ELSE IF r.exc = "NoResultFound"
                        THEN [c EXCEPT !.ret_bool = FALSE]
                      ELSE [c EXCEPT !.exc = r.exc]
           /\ UNCHANGED <<users, next_uuid, next_salt, password_set, reset_used>>

create_session(email) ==
    /\ before' = users
    /\ UNCHANGED calls
    /\ LET r == find_user_by(users, "email", email)
           c == Call("create_session", email, "", None, None)
       IN  IF r.exc # "none"
             THEN /\ last' = [c EXCEPT !.exc = r.exc, !.lookups = 1]
                  /\ UNCHANGED <<users, next_uuid, next_salt, password_set, reset_used>>
             ELSE /\ next_uuid <= MaxUuid
                  /\ LET session_id == next_uuid
                         u == update_user(users, users[r.id].id,
                                          create_session_kwargs(session_id))
                     IN  /\ users' = u.users
                         /\ last' = IF u.exc = "none"
                                      THEN [c EXCEPT !.ret_str = session_id, !.lookups = 2]
                                      ELSE [c EXCEPT !.exc = u.exc, !.lookups = 2]
                  /\ next_uuid' = next_uuid + 1
                  /\ UNCHANGED <<next_salt, password_set, reset_used>>

get_user_from_session_id(session_id) ==
    /\ before' = users
    /\ UNCHANGED calls
    /\ LET c == Call("get_user_from_session_id", "", "", session_id, None)
           r == user_from_session_id(users, session_id)
       IN  last' = [c EXCEPT !.exc = r.exc, !.ret_user = r.ret_user,
                             !.lookups = r.lookups]
    /\ UNCHANGED <<users, next_uuid, next_salt, password_set, reset_used>>

destroy_session(user_id) ==
    /\ before' = users
    /\ UNCHANGED calls
    /\ LET u == update_user(users, user_id, destroy_session_kwargs)
           c == [Call("destroy_session", "", "", None, user_id) EXCEPT !.lookups = 1]
       IN  /\ users' = u.users
           /\ last' = [c EXCEPT !.exc = u.exc]
           /\ UNCHANGED <<next_uuid, next_salt, password_set, reset_used>>

get_reset_password_token(email) ==
    /\ before' = users
    /\ UNCHANGED calls
    /\ LET r == find_user_by(users, "email", email)
           c == Call("get_reset_password_token", email, "", None, None)
       IN  IF r.exc = "NoResultFound"
             THEN /\ last' = [c EXCEPT !.exc = "ValueError", !.lookups = 1]
                  /\ UNCHANGED <<users, next_uuid, next_salt, password_set, reset_used>>
           ELSE IF r.exc # "none"
             THEN /\ last' = [c EXCEPT !.exc = r.exc, !.lookups = 1]
                  /\ UNCHANGED <<users, next_uuid, next_salt, password_set, reset_used>>
           ELSE /\ next_uuid <= MaxUuid
                /\ LET reset_token == next_uuid
                       u == update_user(users, users[r.id].id,
                                        get_reset_password_token_kwargs(reset_token))
                   IN  /\ users' = u.users
                       /\ last' = IF u.exc = "none"
                                    THEN [c EXCEPT !.ret_str = reset_token, !.lookups = 2]
                                  ELSE IF u.exc = "NoResultFound"
                                    THEN [c EXCEPT !.exc = "ValueError", !.lookups = 2]
                                  ELSE [c EXCEPT !.exc = u.exc, !.lookups = 2]
                /\ next_uuid' = next_uuid + 1
                /\ UNCHANGED <<next_salt, password_set, reset_used>>

update_password(reset_token, password) ==
    /\ before' = users
    /\ UNCHANGED calls
    /\ LET r == find_user_by(users, "reset_token", reset_token)
           c == Call("update_password", "", password, reset_token, None)
       IN  IF r.exc = "NoResultFound"
             THEN /\ last' = [c EXCEPT !.exc = "ValueError", !.lookups = 1]
                  /\ UNCHANGED <<users, next_uuid, next_salt, password_set, reset_used>>
           ELSE IF r.exc # "none"
             THEN /\ last' = [c EXCEPT !.exc = r.exc, !.lookups = 1]
                  /\ UNCHANGED <<users, next_uuid, next_salt, password_set, reset_used>>
           ELSE /\ next_salt <= MaxSalt
                /\ next_salt' = next_salt + 1
                /\ LET hashed_password == _hash_password(password, next_salt)
                       u == update_user(users, users[r.id].id,
                                        update_password_kwargs(hashed_password))
                   IN  /\ users' = u.users
                       /\ last' = IF u.exc = "none"
                                    THEN [c EXCEPT !.lookups = 2]
                                  ELSE IF u.exc = "NoResultFound"
                                    THEN [c EXCEPT !.exc = "ValueError", !.lookups = 2]
                                  ELSE [c EXCEPT !.exc = u.exc, !.lookups = 2]
                       /\ password_set' = IF u.exc = "none"
                                            THEN [password_set EXCEPT ![r.id] = password]
                                            ELSE password_set
                       /\ reset_used' = IF u.exc = "none"
                                          THEN reset_used \cup {reset_token}
                                          ELSE reset_used
                /\ UNCHANGED next_uuid

\* ---- arguments callers may pass ----
Tokens == {None, EmptyStr} \cup (1..MaxUuid)
UserIds == 1..(Cardinality(RegisterEmails) + 1)

Next ==
    \/ \E email \in RegisterEmails, password \in Passwords : register_user(email, password)
    \/ \E email \in Emails, password \in Passwords : valid_login(email, password)
    \/ \E email \in Emails : create_session(email)
    \/ \E session_id \in Tokens : get_user_from_session_id(session_id)
    \/ \E user_id \in UserIds : destroy_session(user_id)
    \/ \E email \in Emails : get_reset_password_token(email)
    \/ \E reset_token \in Tokens, password \in Passwords :
           update_password(reset_token, password)

Spec == Init /\ [][Next]_vars

\* ---- vocabulary of the properties ----
Ids(us) == 1..Len(us)
WithEmail(us, email) == {i \in Ids(us) : us[i].email = email}
UuidValues == 1..MaxUuid
Returned == last.exc = "none"

\* Every row but row i is the same in us and vs, and no row was added or removed.
SameExcept(us, vs, i) ==
    /\ Len(us) = Len(vs)
    /\ \A j \in Ids(us) : j # i => us[j] = vs[j]

\* C1: a session token resolves to its user from the create_session that
\* returned it until the next create_session or destroy_session of that
\* user, and no longer resolves once destroy_session cleared it.
C1_SessionRoundTrip ==
    /\ (last.op = "create_session" /\ Returned) =>
          /\ last.ret_str # None
          /\ WithEmail(users, last.email) =
                {user_from_session_id(users, last.ret_str).ret_user}
    /\ \A t \in UuidValues :
          LET u == user_from_session_id(before, t).ret_user
          IN  u # None =>
                IF last.op = "destroy_session" /\ last.user_id = u
                  THEN user_from_session_id(users, t).ret_user = None
                ELSE IF last.op = "create_session" /\ before[u].email = last.email
                  THEN TRUE
                ELSE user_from_session_id(users, t).ret_user = u

C1_Witness ==
    /\ last.op = "destroy_session"
    /\ Returned
    /\ \E t \in UuidValues :
          /\ user_from_session_id(before, t).ret_user = last.user_id
          /\ user_from_session_id(users, t).ret_user = None

\* The rows whose reset token is the uuid t.
Pending(us, t) == IF t \in UuidValues
                    THEN {i \in Ids(us) : us[i].reset_token = t}
                    ELSE {}

\* C2: a reset token is single-use.  An update_password with a pending
\* token succeeds and clears it; a token that was used is never pending
\* again; and an update_password with a token that is not pending fails
\* with ValueError and changes no row.
C2_ResetTokenSingleUse ==
    /\ \A t \in reset_used \cap UuidValues : Pending(users, t) = {}
    /\ (last.op = "update_password" /\ last.token \in UuidValues) =>
          IF Pending(before, last.token) # {}
            THEN /\ Returned
                 /\ last.token \in reset_used
                 /\ \A i \in Pending(before, last.token) :
                       /\ users[i].reset_token = None
                       /\ checkpw(last.password, users[i].hashed_password)
            ELSE /\ last.exc = "ValueError"
                 /\ users = before

C2_Witness ==
    /\ last.op = "update_password"
    /\ last.token \in reset_used \cap UuidValues
    /\ last.exc = "ValueError"
    /\ users = before

\* C3: update_password changes a password only when its token is the
\* pending reset token of that user; for every other argument, None
\* included, it fails with ValueError and changes no row.
C3_OnlyPendingTokenChangesPassword ==
    last.op = "update_password" =>
       IF Pending(before, last.token) # {}
         THEN \E i \in Pending(before, last.token) : SameExcept(before, users, i)
         ELSE /\ last.exc = "ValueError"
              /\ users = before

\* C4: valid_login returns True exactly when a user has the email and the
\* password is the one most recently set for that user by register_user
\* or by a successful update_password.
C4_ValidLoginMatchesLastPassword ==
    last.op = "valid_login" =>
       /\ Returned
       /\ last.ret_bool <=>
             \E i \in WithEmail(users, last.email) : password_set[i] = last.password

C4_Witness ==
    /\ last.op = "valid_login"
    /\ Returned
    /\ ~last.ret_bool
    /\ reset_used # {}
    /\ \E i \in WithEmail(users, last.email) :
          /\ password_set[i] # last.password
          /\ \A j \in Ids(users) : j # i => password_set[j] = last.password

\* C5: create_session for an email that matches no user returns None,
\* raises nothing and changes no row.
C5_CreateSessionMissingReturnsNone ==
    (last.op = "create_session" /\ WithEmail(before, last.email) = {}) =>
       /\ Returned
       /\ last.ret_str = None
       /\ users = before

\* C6: register_user for an email that already has a row fails with
\* ValueError, adds no row and leaves every existing row as it was.
C6_RegisterExistingRejected ==
    (last.op = "register_user" /\ WithEmail(before, last.email) # {}) =>
       /\ last.exc = "ValueError"
       /\ users = before

C6_Witness ==
    /\ last.op = "register_user"
    /\ WithEmail(before, last.email) # {}
    /\ last.exc = "ValueError"
    /\ Len(users) = 2

\* C7: valid_login for an email that matches no user returns False,
\* raises nothing and changes no row.
C7_ValidLoginMissingIsFalse ==
    (last.op = "valid_login" /\ WithEmail(before, last.email) = {}) =>
       /\ Returned
       /\ ~last.ret_bool
       /\ users = before

C7_Witness ==
    /\ last.op = "valid_login"
    /\ WithEmail(before, last.email) = {}
    /\ Returned
    /\ ~last.ret_bool
    /\ \E i \in Ids(users) : password_set[i] = last.password

\* C8: get_user_from_session_id returns None without any repository
\* lookup when the session id is None or empty, and never returns a user
\* whose session_id is None.
C8_NoLookupWhenAbsentOrEmpty ==
    last.op = "get_user_from_session_id" =>
       /\ last.token \in {None, EmptyStr} =>
             /\ Returned
             /\ last.ret_user = None
             /\ last.lookups = 0
       /\ last.ret_user # None => users[last.ret_user].session_id # None

\* C9: get_reset_password_token for an email that matches no user fails
\* with ValueError and changes no row; for an existing user it stores the
\* returned token as that user's reset_token, replacing a pending one.
C9_ResetTokenIssue ==
    last.op = "get_reset_password_token" =>
       IF WithEmail(before, last.email) = {}
         THEN /\ last.exc = "ValueError"
              /\ users = before
         ELSE /\ Returned
              /\ last.ret_str \in UuidValues
              /\ \A i \in WithEmail(before, last.email) :
                    /\ before[i].reset_token # last.ret_str
                    /\ users = [before EXCEPT ![i].reset_token = last.ret_str]

C9_Witness ==
    /\ last.op = "get_reset_password_token"
    /\ Returned
    /\ \E i \in WithEmail(before, last.email) :
          /\ before[i].reset_token \in UuidValues
          /\ users[i].reset_token = last.ret_str
          /\ users[i].reset_token # before[i].reset_token

\* C10: destroy_session for an id that matches no user raises
\* NoResultFound and changes no row; for an existing id it sets that
\* user's session_id to None.
C10_DestroySession ==
    last.op = "destroy_session" =>
       LET rows == {i \in Ids(before) : before[i].id = last.user_id}
       IN  IF rows = {}
             THEN /\ last.exc = "NoResultFound"
                  /\ users = before
             ELSE /\ Returned
                  /\ \A i \in rows : users = [before EXCEPT ![i].session_id = None]

C10_Witness ==
    /\ last.op = "destroy_session"
    /\ last.exc = "NoResultFound"
    /\ before # <<>>
    /\ \E i \in Ids(before) : before[i].session_id # None
    /\ users = before

\* C11: a user has one session id at a time.  After create_session returned
\* a token for a user, that token is the only uuid that resolves to the
\* user, and the token that was active before resolves to nobody.
C11_NewSessionReplacesOld ==
    (last.op = "create_session" /\ Returned) =>
       \A i \in WithEmail(before, last.email) :
          /\ users[i].session_id = last.ret_str
          /\ \A t \in UuidValues :
                user_from_session_id(users, t).ret_user = i <=> t = last.ret_str
          /\ before[i].session_id # None =>
                /\ before[i].session_id # last.ret_str
                /\ user_from_session_id(before, before[i].session_id).ret_user = i
                /\ user_from_session_id(users, before[i].session_id).ret_user = None

C11_Witness ==
    /\ last.op = "create_session"
    /\ Returned
    /\ \E i \in WithEmail(before, last.email) :
          /\ before[i].session_id \in UuidValues
          /\ users[i].session_id = last.ret_str
          /\ user_from_session_id(users, before[i].session_id).ret_user = None

\* C13: with calls executed one at a time, no two rows have the same email.
C13_EmailUnique ==
    \A i, j \in Ids(users) : users[i].email = users[j].email => i = j

C13_Witness ==
    /\ Len(users) = 2
    /\ last.op = "register_user"
    /\ last.exc = "ValueError"
    /\ C13_EmailUnique

\* C15: update_password stores the new hash and clears the reset token
\* together.  After an update_password no row has a new hash with the
\* presented token still set, and no row has lost its reset token while
\* keeping its old hash.
C15_PasswordAndTokenTogether ==
    last.op = "update_password" =>
       \A i \in Ids(before) :
          /\ ~ /\ users[i].hashed_password # before[i].hashed_password
               /\ users[i].reset_token # None
          /\ ~ /\ before[i].reset_token # None
               /\ users[i].reset_token = None
               /\ users[i].hashed_password = before[i].hashed_password
          /\ users[i].reset_token \in {before[i].reset_token, None}

C15_Witness ==
    /\ last.op = "update_password"
    /\ Returned
    /\ \E i \in Ids(before) :
          /\ before[i].reset_token = last.token
          /\ last.token \in UuidValues
          /\ users[i].reset_token = None
          /\ users[i].hashed_password # before[i].hashed_password

\* The columns of row i that differ between us and vs.
Changed(us, vs, i) == {a \in UserAttrs : us[i][a] # vs[i][a]}

\* The rows the last call addressed, and the columns it may write.
Targets ==
    IF last.op \in {"create_session", "get_reset_password_token"}
      THEN WithEmail(before, last.email)
    ELSE IF last.op = "destroy_session"
      THEN {i \in Ids(before) : before[i].id = last.user_id}
    ELSE IF last.op = "update_password"
      THEN {i \in Ids(before) : before[i].reset_token = last.token}
    ELSE {}

Writes ==
    IF last.op \in {"create_session", "destroy_session"}
      THEN {"session_id"}
    ELSE IF last.op = "get_reset_password_token"
      THEN {"reset_token"}
    ELSE IF last.op = "update_password"
      THEN {"hashed_password", "reset_token"}
    ELSE {}

\* C19: the session and the reset state machines are independent.  Every
\* call leaves the rows it does not address as they were, and in the row
\* it addresses it changes only its own columns: session_id for
\* create_session and destroy_session, reset_token for
\* get_reset_password_token, hashed_password and reset_token for
\* update_password; id and email never change.
C19_FrameEffect ==
    /\ Len(users) >= Len(before)
    /\ \A i \in Ids(before) :
          /\ Changed(before, users, i) \subseteq Writes
          /\ i \notin Targets => users[i] = before[i]

C19_Witness ==
    /\ last.op = "get_reset_password_token"
    /\ Returned
    /\ Len(users) = 2
    /\ \E i \in Targets :
          /\ Changed(before, users, i) = {"reset_token"}
          /\ users[i].session_id # None
          /\ \E j \in Ids(users) : j # i /\ users[j] = before[j]

\* ---- concurrent callers ----
\* Callers share the one Auth object, its DB and its session.  Each caller
\* makes one call; a call is two steps, the lookup (find_user_by) and the
\* write (add_user or update_user), and the steps of different callers
\* interleave.  Between its steps a caller holds the id of the row it found.
Callers == 1..NumCallers

Idle ==
    [op |-> "idle", pc |-> "idle", email |-> "", password |-> "", token |-> None,
     user |-> None, exc |-> "none", ret_user |-> None, ret_str |-> None]

\* Tables the calls start from: the table after construction, after
\* register_user("a@x.com", "pw1"), and after a get_reset_password_token
\* for that user.
Registered == add_user(<<>>, "a@x.com", _hash_password("pw1", 1))
ResetPending == update_user(Registered, 1, get_reset_password_token_kwargs(1)).users
ConcStart ==
    { [users |-> <<>>, next_uuid |-> 1, next_salt |-> 1],
      [users |-> Registered, next_uuid |-> 1, next_salt |-> 2],
      [users |-> ResetPending, next_uuid |-> 2, next_salt |-> 2] }

ConcInit ==
    /\ \E s \in ConcStart :
          /\ users = s.users
          /\ next_uuid = s.next_uuid
          /\ next_salt = s.next_salt
    /\ calls = [c \in Callers |-> Idle]
    /\ last = Call("init", "", "", None, None)
    /\ before = <<>>
    /\ password_set = <<>>
    /\ reset_used = {}

Done(call) == [call EXCEPT !.pc = "done"]
Raised(call, exc) == [call EXCEPT !.pc = "done", !.exc = exc]

\* auth.py:32 -- the lookup of register_user
register_user_lookup(c, email, password) ==
    /\ calls[c].pc = "idle"
    /\ LET r == find_user_by(users, "email", email)
           call == [Idle EXCEPT !.op = "register_user", !.email = email,
                                !.password = password]
       IN  calls' = [calls EXCEPT ![c] =
                        IF r.exc = "none" THEN Raised(call, "ValueError")
                        ELSE IF r.exc = "NoResultFound" THEN [call EXCEPT !.pc = "insert"]
                        ELSE Raised(call, r.exc)]
    /\ UNCHANGED <<users, next_uuid, next_salt, last, before, password_set, reset_used>>

\* auth.py:35-36 -- the insert of register_user
register_user_insert(c) ==
    /\ calls[c].op = "register_user"
    /\ calls[c].pc = "insert"
    /\ next_salt <= MaxSalt
    /\ users' = add_user(users, calls[c].email,
                         _hash_password(calls[c].password, next_salt))
    /\ next_salt' = next_salt + 1
    /\ calls' = [calls EXCEPT ![c] = Done([calls[c] EXCEPT !.ret_user = Len(users) + 1])]
    /\ UNCHANGED <<next_uuid, last, before, password_set, reset_used>>

\* auth.py:48 -- the lookup of create_session
create_session_lookup(c, email) ==
    /\ calls[c].pc = "idle"
    /\ LET r == find_user_by(users, "email", email)
           call == [Idle EXCEPT !.op = "create_session", !.email = email]
       IN  calls' = [calls EXCEPT ![c] =
                        IF r.exc = "none"
                          THEN [call EXCEPT !.pc = "update", !.user = users[r.id].id]
                          ELSE Raised(call, r.exc)]
    /\ UNCHANGED <<users, next_uuid, next_salt, last, before, password_set, reset_used>>

\* auth.py:50-52 -- the write of create_session
create_session_update(c) ==
    /\ calls[c].op = "create_session"
    /\ calls[c].pc = "update"
    /\ next_uuid <= MaxUuid
    /\ LET session_id == next_uuid
           u == update_user(users, calls[c].user, create_session_kwargs(session_id))
       IN  /\ users' = u.users
           /\ calls' = [calls EXCEPT ![c] =
                           IF u.exc = "none"
                             THEN Done([calls[c] EXCEPT !.ret_str = session_id])
                             ELSE Raised(calls[c], u.exc)]
    /\ next_uuid' = next_uuid + 1
    /\ UNCHANGED <<next_salt, last, before, password_set, reset_used>>

\* auth.py:81 -- the lookup of update_password
update_password_lookup(c, reset_token, password) ==
    /\ calls[c].pc = "idle"
    /\ LET r == find_user_by(users, "reset_token", reset_token)
           call == [Idle EXCEPT !.op = "update_password", !.token = reset_token,
                                !.password = password]
       IN  calls' = [calls EXCEPT ![c] =
                        IF r.exc = "none"
                          THEN [call EXCEPT !.pc = "update", !.user = users[r.id].id]
                        ELSE IF r.exc = "NoResultFound"
                          THEN Raised(call, "ValueError")
                        ELSE Raised(call, r.exc)]
    /\ UNCHANGED <<users, next_uuid, next_salt, last, before, password_set, reset_used>>

\* auth.py:82-83 -- the write of update_password
update_password_update(c) ==
    /\ calls[c].op = "update_password"
    /\ calls[c].pc = "update"
    /\ next_salt <= MaxSalt
    /\ LET hashed_password == _hash_password(calls[c].password, next_salt)
           u == update_user(users, calls[c].user,
                            update_password_kwargs(hashed_password))
       IN  /\ users' = u.users
           /\ calls' = [calls EXCEPT ![c] =
                           IF u.exc = "none" THEN Done(calls[c])
                           ELSE IF u.exc = "NoResultFound"
                             THEN Raised(calls[c], "ValueError")
                           ELSE Raised(calls[c], u.exc)]
    /\ next_salt' = next_salt + 1
    /\ UNCHANGED <<next_uuid, last, before, password_set, reset_used>>

ConcNext ==
    \/ \E c \in Callers, email \in RegisterEmails, password \in Passwords :
           register_user_lookup(c, email, password)
    \/ \E c \in Callers : register_user_insert(c)
    \/ \E c \in Callers, email \in RegisterEmails : create_session_lookup(c, email)
    \/ \E c \in Callers : create_session_update(c)
    \/ \E c \in Callers, reset_token \in {None} \cup UuidValues, password \in Passwords :
           update_password_lookup(c, reset_token, password)
    \/ \E c \in Callers : update_password_update(c)

SpecConc == ConcInit /\ [][ConcNext]_vars

\* The callers whose call of op returned normally.
Succeeded(op) ==
    {c \in Callers : calls[c].op = op /\ calls[c].pc = "done" /\ calls[c].exc = "none"}

\* The callers between the lookup and the write of a create_session on row i.
SessionInFlight(i) ==
    {c \in Callers : /\ calls[c].op = "create_session"
                     /\ calls[c].pc = "update"
                     /\ calls[c].user = i}

\* C12: concurrent create_session calls return pairwise distinct tokens,
\* and once no create_session on a row is in flight the row's session_id
\* is the token one of the finished calls on that row returned.
C12_ConcurrentSessions ==
    /\ \A c, d \in Succeeded("create_session") :
          /\ calls[c].ret_str \in UuidValues
          /\ c # d => calls[c].ret_str # calls[d].ret_str
    /\ \A c \in Succeeded("create_session") :
          SessionInFlight(calls[c].user) = {} =>
             \E d \in Succeeded("create_session") :
                /\ calls[d].user = calls[c].user
                /\ users[calls[c].user].session_id = calls[d].ret_str

C12_Witness ==
    /\ \E c, d \in Succeeded("create_session") :
          /\ c # d
          /\ calls[c].user = calls[d].user
          /\ calls[c].ret_str # calls[d].ret_str
          /\ users[calls[c].user].session_id = calls[d].ret_str
    /\ \A c \in Callers : calls[c].pc = "done"

\* C14: when two concurrent register_user calls with one email have both
\* returned a user, the table holds two rows with that email, one per call.
C14_ConcurrentRegisterDuplicates ==
    \A c, d \in Succeeded("register_user") :
       (c # d /\ calls[c].email = calls[d].email) =>
          /\ calls[c].ret_user # calls[d].ret_user
          /\ {calls[c].ret_user, calls[d].ret_user}
                \subseteq WithEmail(users, calls[c].email)

C14_Witness ==
    \E c, d \in Succeeded("register_user") :
       /\ c # d
       /\ calls[c].email = calls[d].email
       /\ Cardinality(WithEmail(users, calls[c].email)) >= 2

\* C20: for every reset token, at most one update_password call with that
\* token succeeds, however the callers' lookups and writes interleave.
C20_ResetTokenOneSuccess ==
    \A t \in UuidValues :
       Cardinality({c \in Succeeded("update_password") : calls[c].token = t}) <= 1

\* ---- db.py called directly ----
\* The methods of DB as operations of their own, with keyword arguments
\* as sequences of <<name, value>> pairs in the order they were passed.
Keywords == {"session_id", "reset_token", "no_such_field"}
KeywordValues == {None, 1}
KeywordPairs == Keywords \X KeywordValues
Kwargs ==
    {<<>>} \cup {<<p>> : p \in KeywordPairs}
           \cup {s \in {<<p, q>> : p \in KeywordPairs, q \in KeywordPairs} :
                       s[1][1] # s[2][1]}

\* db.py:59-64 for any keyword arguments: filter_by raises InvalidRequestError
\* for a name that is no column; with no keyword at all it filters nothing,
\* and one() then decides on the number of rows in the table.
find_user_by_kwargs(us, kwargs) ==
    LET rows == {i \in 1..Len(us) :
                    \A k \in 1..Len(kwargs) : us[i][kwargs[k][1]] = kwargs[k][2]}
    IN  IF \E k \in 1..Len(kwargs) : kwargs[k][1] \notin UserAttrs
          THEN [exc |-> "InvalidRequestError", id |-> None]
        ELSE IF rows = {}
          THEN [exc |-> "NoResultFound", id |-> None]
        ELSE IF Cardinality(rows) > 1
          THEN [exc |-> "InvalidRequestError", id |-> None]
        ELSE [exc |-> "none", id |-> CHOOSE i \in rows : TRUE]

DBCall(op, user_id, kwargs) ==
    [op |-> op, user_id |-> user_id, kwargs |-> kwargs, exc |-> "none",
     ret_user |-> None]

DBInit ==
    /\ users = <<>>
    /\ next_uuid = 1
    /\ next_salt = 1
    /\ last = DBCall("init", None, <<>>)
    /\ before = <<>>
    /\ password_set = <<>>
    /\ reset_used = {}
    /\ calls = <<>>

db_add_user(email, hashed_password) ==
    /\ Len(users) < MaxRows
    /\ before' = users
    /\ users' = add_user(users, email, hashed_password)
    /\ last' = [DBCall("add_user", None, <<>>) EXCEPT !.ret_user = Len(users) + 1]
    /\ UNCHANGED <<next_uuid, next_salt, password_set, reset_used, calls>>

db_find_user_by(kwargs) ==
    /\ before' = users
    /\ LET r == find_user_by_kwargs(users, kwargs)
       IN  last' = [DBCall("find_user_by", None, kwargs) EXCEPT
                       !.exc = r.exc,
                       !.ret_user = IF r.exc = "none" THEN users[r.id].id ELSE None]
    /\ UNCHANGED <<users, next_uuid, next_salt, password_set, reset_used, calls>>

\* The attributes set before the ValueError stay set on the session's
\* object: nothing rolls the session back, the next query flushes them and
\* the next commit stores them.
db_update_user(user_id, kwargs) ==
    /\ before' = users
    /\ LET u == update_user(users, user_id, kwargs)
       IN  /\ users' = u.users
           /\ last' = [DBCall("update_user", user_id, kwargs) EXCEPT !.exc = u.exc]
    /\ UNCHANGED <<next_uuid, next_salt, password_set, reset_used, calls>>

DBNext ==
    \/ \E email \in RegisterEmails : db_add_user(email, _hash_password("pw1", 1))
    \/ \E kwargs \in Kwargs : db_find_user_by(kwargs)
    \/ \E user_id \in 1..(MaxRows + 1), kwargs \in Kwargs : db_update_user(user_id, kwargs)

SpecDB == DBInit /\ [][DBNext]_vars

\* The rows that satisfy every criterion of kwargs (all of them columns).
Matching(us, kwargs) ==
    {i \in Ids(us) : \A k \in 1..Len(kwargs) : us[i][kwargs[k][1]] = kwargs[k][2]}

Unsupported(kwargs) == \E k \in 1..Len(kwargs) : kwargs[k][1] \notin UserAttrs

\* C16: find_user_by signals InvalidRequestError whenever the criteria are
\* empty or name a field that is not a User attribute, whatever the number
\* of stored users; otherwise it returns the single matching record, or
\* signals NoResultFound when no record matches.
C16_FindUserByContract ==
    last.op = "find_user_by" =>
       IF last.kwargs = <<>> \/ Unsupported(last.kwargs)
         THEN last.exc = "InvalidRequestError"
         ELSE /\ Matching(users, last.kwargs) = {} => last.exc = "NoResultFound"
              /\ Cardinality(Matching(users, last.kwargs)) = 1 =>
                    /\ last.exc = "none"
                    /\ last.ret_user \in Matching(users, last.kwargs)

\* C18: an update_user that fails with ValueError because a field name is
\* not a User attribute leaves every field of the record unchanged, also
\* when valid field names precede the invalid one.
C18_FailedUpdateChangesNothing ==
    (last.op = "update_user" /\ last.exc = "ValueError") => users = before

\* ---- encrypt_password.py ----
\* A digest is <<salt, password>> as above.  The salts gensalt produces are
\* the positive numbers; bcrypt reads the salt from the front of the digest
\* it is given.
CryptPasswords == Passwords \cup {"pw3"}
Digests == {hashpw(password, salt) : password \in CryptPasswords, salt \in 1..MaxSalt}

\* Values no hash_password call produces: the empty bytes, a value whose
\* front is no bcrypt salt, a digest cut off after its salt, and a valid
\* salt followed by bytes that are the hash of no password.
Malformed == {<<>>, <<0, "pw1">>, <<1>>, <<1, "garbage">>}

ValidSalt(hashed_password) ==
    /\ Len(hashed_password) >= 1
    /\ hashed_password[1] >= 1

\* bcrypt.checkpw: ValueError("Invalid salt") when the value does not start
\* with a salt, otherwise the comparison of the re-computed digest.
bcrypt_checkpw(password, hashed_password) ==
    IF ~ValidSalt(hashed_password)
      THEN [exc |-> "ValueError", ret |-> FALSE]
      ELSE [exc |-> "none",
            ret |-> hashpw(password, hashed_password[1]) = hashed_password]

CryptCall(op, hashed_password, password) ==
    [op |-> op, hashed_password |-> hashed_password, password |-> password,
     exc |-> "none", ret_bool |-> FALSE, ret_hash |-> <<>>]

CryptInit ==
    /\ users = <<>>
    /\ next_uuid = 1
    /\ next_salt = 1
    /\ last = CryptCall("init", <<>>, "")
    /\ before = <<>>
    /\ password_set = <<>>
    /\ reset_used = {}
    /\ calls = <<>>

hash_password(password) ==
    /\ next_salt <= MaxSalt
    /\ LET salt == next_salt
           hashed_password == hashpw(password, salt)
       IN  last' = [CryptCall("hash_password", <<>>, password) EXCEPT
                       !.ret_hash = hashed_password]
    /\ next_salt' = next_salt + 1
    /\ UNCHANGED <<users, next_uuid, before, password_set, reset_used, calls>>

is_valid(hashed_password, password) ==
    /\ LET r == bcrypt_checkpw(password, hashed_password)
       IN  last' = [CryptCall("is_valid", hashed_password, password) EXCEPT
                       !.exc = r.exc, !.ret_bool = r.ret]
    /\ UNCHANGED <<users, next_uuid, next_salt, before, password_set, reset_used, calls>>

CryptNext ==
    \/ \E password \in CryptPasswords : hash_password(password)
    \/ \E hashed_password \in Digests \cup Malformed, password \in CryptPasswords :
           is_valid(hashed_password, password)

SpecCrypt == CryptInit /\ [][CryptNext]_vars

\* C17: is_valid never raises when hashed is not a value produced by
\* hash_password; it returns False.
C17_IsValidNeverRaises ==
    (last.op = "is_valid" /\ last.hashed_password \in Malformed) =>
       /\ last.exc = "none"
       /\ last.ret_bool = FALSE
====
